---- MODULE Spec2Model ----
(***************************************************************************)
(* Model of the voicemail processor: lambda_handler (src/vmx_to_s3.py)     *)
(* driving one KvsPythonConsumerConnect (src/kvs_consumer.py) per record.  *)
(* The main thread runs lambda_handler; every started KvsConsumerLibrary   *)
(* thread (the producer of a record) invokes the consumer's call-backs.    *)
(***************************************************************************)
EXTENDS Integers, Sequences, FiniteSets, TLC

\* ---- bounds -------------------------------------------------------------
MaxRecords == 2      \* longest batch
MaxFrag == 3         \* largest fragment number a stream delivers

\* ---- inputs -------------------------------------------------------------
\* One decoded Kinesis record, reduced to what lambda_handler reads from it:
\* decodes: base64/json/ContactId extraction works;
\* vm_flag: "raise" = vm_record["Attributes"] raises, "absent" = no vm_flag
\*          key, otherwise the flag's value;
\* stop:    FragmentStopNumber, 0 = the KVS details cannot be extracted.
\* A record that does not decode has nothing else to read.
RecordKinds ==
    {[decodes |-> FALSE, vm_flag |-> "raise", stop |-> 0]}
    \cup {[decodes |-> TRUE, vm_flag |-> f, stop |-> MaxFrag - 1] :
             f \in {"raise", "absent", "0", "7", "1"}}
    \cup {[decodes |-> TRUE, vm_flag |-> "1", stop |-> 0]}

Batches == UNION {[1..n -> RecordKinds] : n \in 0..MaxRecords}

\* ---- values -------------------------------------------------------------
None == [format |-> "None"]
NoTags == 0          \* last_good_fragment_tags is None
BadTags == -1        \* tags without a usable AWS_KINESISVIDEO_FRAGMENT_NUMBER

NewConsumer(stop) ==
    [end_fragment |-> stop,
     last_good_fragment_tags |-> NoTags,
     past_end_fragment |-> FALSE,
     from_audio_fragments |-> <<>>,
     to_audio_fragments |-> <<>>,
     to_customer_audio |-> None,
     from_customer_audio |-> None]

NoConsumer == [end_fragment |-> 0 - 1]

convert_track_to_wav(track) ==
    [format |-> "wav", nchannels |-> 1, framerate |-> 8000, sampwidth |-> 2,
     frames |-> track]

\* file_wav.getvalue(): the container's bytes, of which the storage log keeps
\* the container format only.
getvalue(file_wav) == file_wav.format

\* The bytes the fragment processor returns for fragment f on a channel.
Span(f) == <<f>>

VARIABLES
    event,                   \* event["Records"]
    pc,                      \* position of the main thread in lambda_handler
    total_record_count,
    processed_record_count,
    response_container,      \* insertion-ordered dict: <<label, result>> pairs
    response,                \* the value lambda_handler returned
    consumer,                \* record index -> KvsPythonConsumerConnect
    producer,                \* record index -> KvsConsumerLibrary thread
    audio_file,              \* local of lambda_handler
    get_media_calls,         \* record indices get_media was called for
    s3_calls,                \* put_object calls, in order
    log_error                \* what the step just taken gave to log.error

vars == <<event, pc, total_record_count, processed_record_count,
          response_container, response, consumer, producer, audio_file,
          get_media_calls, s3_calls, log_error>>

main_vars == <<pc, total_record_count, processed_record_count,
               response_container, response, audio_file, get_media_calls,
               s3_calls>>

Init ==
    /\ event \in Batches
    /\ pc = "loop"
    /\ total_record_count = 0
    /\ processed_record_count = 0
    /\ response_container = <<>>
    /\ response = None
    /\ consumer = [i \in 1..MaxRecords |-> NoConsumer]
    /\ producer = [i \in 1..MaxRecords |-> [phase |-> "idle", sent |-> 0]]
    /\ audio_file = None
    /\ get_media_calls = {}
    /\ s3_calls = <<>>
    /\ log_error = ""

\* ---- KvsPythonConsumerConnect call-backs (pure part) ---------------------
\* Mutant: the end fragment itself counts as past the end.
PastEndInclusive(current_fragment, end_fragment) == current_fragment >= end_fragment

\* int(current_fragment) > int(self.end_fragment)
PastEnd(current_fragment, end_fragment) == current_fragment > end_fragment

\* Mutant: the new span is put in front of the buffer.
ExtendFront(buffer, data, f) == IF data = "data" THEN Span(f) \o buffer ELSE buffer

\* bytearray.extend after "if data:"; data is "none" (None or empty) or "data"
Extend(buffer, data, f) == IF data = "data" THEN buffer \o Span(f) ELSE buffer

\* on_fragment_arrived for fragment number f.  tags: "raise" =
\* get_fragment_tags raises, "nonumber" = the tags carry no usable fragment
\* number, "ok".  from_data/to_data: "raise", "none" or "data".
\* Result: the consumer afterwards, and whether the except branch ran.
on_fragment_arrived(self, f, tags, from_data, to_data) ==
    IF tags = "raise" THEN [self |-> self, err |-> TRUE]
    ELSE IF tags = "nonumber"
    THEN [self |-> [self EXCEPT !.last_good_fragment_tags = BadTags], err |-> TRUE]
    ELSE LET s1 == [self EXCEPT !.last_good_fragment_tags = f] IN
         IF PastEnd(f, self.end_fragment)
         THEN [self |-> [s1 EXCEPT !.past_end_fragment = TRUE], err |-> FALSE]
         ELSE IF from_data = "raise" THEN [self |-> s1, err |-> TRUE]
         ELSE LET s2 == [s1 EXCEPT !.from_audio_fragments = Extend(@, from_data, f)] IN
              IF to_data = "raise" THEN [self |-> s2, err |-> TRUE]
              ELSE [self |-> [s2 EXCEPT !.to_audio_fragments = Extend(@, to_data, f)],
                    err |-> FALSE]

\* Mutant: the flag is set as the last statement of the try block.
CompleteFlagInTry(raised) == ~raised

\* The finally block of on_stream_read_complete: the flag is set whether or
\* not the try block raised.
CompleteFlag(raised) == TRUE

\* on_stream_read_complete.  to_raises/from_raises: convert_track_to_wav
\* raises for that channel's buffer.
on_stream_read_complete(self, to_raises, from_raises) ==
    LET to_some == Len(self.to_audio_fragments) > 0
        from_some == Len(self.from_audio_fragments) > 0
        to_err == to_some /\ to_raises
        from_err == ~to_err /\ from_some /\ from_raises
        s1 == IF to_some /\ ~to_err
              THEN [self EXCEPT !.to_customer_audio =
                                    convert_track_to_wav(self.to_audio_fragments)]
              ELSE self
        s2 == IF ~to_err /\ from_some /\ ~from_err
              THEN [s1 EXCEPT !.from_customer_audio =
                                  convert_track_to_wav(self.from_audio_fragments)]
              ELSE s1
        raised == to_err \/ from_err
    IN [self |-> [s2 EXCEPT !.past_end_fragment =
                                @ \/ CompleteFlag(raised)],
        err |-> IF to_err THEN "convert_track_to_wav(to_audio_fragments)"
                ELSE IF from_err THEN "convert_track_to_wav(from_audio_fragments)"
                ELSE ""]

\* Mutant: the read error is taken for the end of the stream.
on_stream_read_exception_ends(self) == [self EXCEPT !.past_end_fragment = TRUE]

\* on_stream_read_exception: a log.error call and nothing else.
on_stream_read_exception(self) == self

\* ---- object lifetime ------------------------------------------------------
\* The record the main thread is working on (0: between records).
Cur == IF pc \in {"loop", "done"} THEN 0 ELSE total_record_count

\* lambda_handler reads a consumer only through its local "processor", which
\* it abandons when the record's iteration ends.  A KvsConsumerLibrary thread
\* still running then goes on calling the call-backs of that one object,
\* which nothing else can read any more: the object is dropped from the
\* state and its thread, running or not, is no longer followed.
Release(cons, k) == [cons EXCEPT ![k] = NoConsumer]
Detach(prod, k) == [prod EXCEPT ![k] = [phase |-> "unfollowed", sent |-> 0]]

\* ---- lambda_handler -------------------------------------------------------
\* Mutant: the default of the lookup is the voicemail value.
VmFlagDefaultOne(record) == IF record.vm_flag = "absent" THEN "1" ELSE record.vm_flag

\* vm_record["Attributes"].get("vm_flag", "99")
VmFlag(record) == IF record.vm_flag = "absent" THEN "99" ELSE record.vm_flag

\* current_contact_id of the record at position k
ContactId(k) == k

\* f"{RECORDING_PATH}{year}/{month}/{day}/" + current_contact_id + ".wav"
S3Path(contact_id) == <<"RECORDING_PATH", "YYYY/MM/DD/", contact_id, ".wav">>

\* attribute_tag_container: every vm_ attribute as key=value&; the result of
\* rstrip("&") is discarded, so the trailing & stays.
Tagging(record) == <<"vm_flag=" \o VmFlag(record), "&">>

\* response_container[f"Record #{total_record_count} result"] = result
SetResult(container, k, result) ==
    IF \E j \in 1..Len(container) : container[j].label = k
    THEN [j \in 1..Len(container) |->
             IF container[j].label = k
             THEN [label |-> k, result |-> result] ELSE container[j]]
    ELSE Append(container, [label |-> k, result |-> result])

\* The next record of the for loop, once total_record_count += 1 has run.
NextRecord == event[total_record_count + 1]
AtRecord == pc = "loop" /\ total_record_count < Len(event)

\* A loop iteration that ends in "continue" before a consumer exists.
Continue(result, counted) ==
    /\ total_record_count' = total_record_count + 1
    /\ response_container' =
           SetResult(response_container, total_record_count + 1, result)
    /\ processed_record_count' = processed_record_count + (IF counted THEN 1 ELSE 0)
    /\ UNCHANGED <<event, pc, response, consumer, producer, audio_file,
                   get_media_calls, s3_calls>>

\* Mutant: everything that is not "0" is taken for a voicemail.
RouteNoElse(vm_flag) ==
    IF vm_flag = "0" THEN "IGNORE - voicemail already processed" ELSE "process"

\* if vm_flag == "1": ... elif vm_flag == "0": ... else: ...
Route(vm_flag) ==
    IF vm_flag = "1" THEN "process"
    ELSE IF vm_flag = "0" THEN "IGNORE - voicemail already processed"
    ELSE "IGNORE - voicemail flag not valid"

\* How far the stages before the process/store block take a record: the
\* result text of the stage that ends the iteration, or "process".
Stage(record) ==
    IF ~record.decodes THEN "Failed to extract record and/or decode"
    ELSE IF record.vm_flag = "raise"
    THEN "IGNORE - An error occurred whilst evaluating Voicemail Flag"
    ELSE IF Route(VmFlag(record)) # "process" THEN Route(VmFlag(record))
    ELSE IF record.stop = 0 THEN "Failed to extract KVS info"
    ELSE "process"

DecodeFailed ==
    /\ AtRecord
    /\ Stage(NextRecord) = "Failed to extract record and/or decode"
    /\ Continue(Stage(NextRecord), FALSE)
    /\ log_error' = "decode"

FlagError ==
    /\ AtRecord
    /\ Stage(NextRecord) = "IGNORE - An error occurred whilst evaluating Voicemail Flag"
    /\ Continue(Stage(NextRecord), FALSE)
    /\ log_error' = "vm_flag"

AlreadyProcessed ==
    /\ AtRecord
    /\ Stage(NextRecord) = "IGNORE - voicemail already processed"
    /\ Continue(Stage(NextRecord), TRUE)
    /\ log_error' = ""

\* Mutant: the else branch forgets processed_record_count += 1.
FlagNotValidUncounted ==
    /\ AtRecord
    /\ Stage(NextRecord) = "IGNORE - voicemail flag not valid"
    /\ Continue(Stage(NextRecord), FALSE)
    /\ log_error' = ""

FlagNotValid ==
    /\ AtRecord
    /\ Stage(NextRecord) = "IGNORE - voicemail flag not valid"
    /\ Continue(Stage(NextRecord), TRUE)
    /\ log_error' = ""

KvsInfoFailed ==
    /\ AtRecord
    /\ Stage(NextRecord) = "Failed to extract KVS info"
    /\ Continue(Stage(NextRecord), FALSE)
    /\ log_error' = "kvs info"

\* The except branch of the process/store block.
S3WriteFailed(cons, calls, media, exc) ==
    /\ response_container' =
           SetResult(response_container, total_record_count,
                     "Failed to write audio to S3")
    /\ pc' = "loop"
    /\ consumer' = Release(cons, total_record_count)
    /\ producer' = Detach(producer, total_record_count)
    /\ s3_calls' = calls
    /\ get_media_calls' = media
    /\ audio_file' = None
    /\ log_error' = exc
    /\ UNCHANGED <<event, total_record_count, processed_record_count, response>>

\* Stages 3 and 4 pass (the tag loop cannot raise on a decoded mapping), then
\* KvsPythonConsumerConnect(...) is constructed; session.client may raise.
CreateConsumer ==
    /\ AtRecord
    /\ Stage(NextRecord) = "process"
    /\ total_record_count' = total_record_count + 1
    /\ \E ok \in BOOLEAN :
          IF ok
          THEN /\ consumer' = [consumer EXCEPT ![total_record_count + 1] =
                                   NewConsumer(NextRecord.stop)]
               /\ pc' = "service_loop"
               /\ log_error' = ""
               /\ UNCHANGED response_container
          ELSE /\ response_container' =
                      SetResult(response_container, total_record_count + 1,
                                "Failed to write audio to S3")
               /\ log_error' = "process/store"
               /\ UNCHANGED <<pc, consumer>>
    /\ UNCHANGED <<event, processed_record_count, response, producer, audio_file,
                   get_media_calls, s3_calls>>

\* service_loop up to stream_consumer.start(): the endpoint lookup or the
\* get_media call may raise; otherwise the KvsConsumerLibrary thread starts.
StartStream ==
    /\ pc = "service_loop"
    /\ \E outcome \in {"endpoint raises", "get_media raises", "started"} :
          IF outcome = "started"
          THEN /\ producer' = [producer EXCEPT ![total_record_count] =
                                   [phase |-> "streaming", sent |-> 0]]
               /\ get_media_calls' = get_media_calls \cup {total_record_count}
               /\ pc' = "wait"
               /\ UNCHANGED <<event, total_record_count, processed_record_count,
                              response_container, response, consumer, audio_file,
                              s3_calls>>
               /\ log_error' = ""
          ELSE S3WriteFailed(consumer, s3_calls,
                             IF outcome = "get_media raises"
                             THEN get_media_calls \cup {total_record_count}
                             ELSE get_media_calls,
                             "process/store")

\* Mutant: service_loop starts the thread and returns without waiting.
WaitOverAtOnce(self) == TRUE

\* The exit condition of the wait of service_loop.
WaitOver(self) == self.past_end_fragment

\* while not self.past_end_fragment: time.sleep(1) -- the loop is left once
\* the flag is seen set; then audio_file = processor.from_customer_audio.
ServiceLoopReturns ==
    /\ pc = "wait"
    /\ WaitOver(consumer[total_record_count])
    /\ audio_file' = consumer[total_record_count].from_customer_audio
    /\ pc' = "put"
    /\ UNCHANGED <<event, total_record_count, processed_record_count,
                   response_container, response, consumer, producer,
                   get_media_calls, s3_calls>>
    /\ log_error' = ""

\* Mutant: an error of put_object is swallowed.
PutReturnsAlways(ok) == TRUE

\* put_object returns (ok) or raises into the except branch.
PutReturns(ok) == ok

\* Mutant: getvalue of a missing artifact yields a body.
GetvalueNeverRaises(file_wav) == FALSE

\* audio_file.getvalue() raises AttributeError when audio_file is None.
GetvalueRaises(file_wav) == file_wav = None

\* put_object(Body=audio_file.getvalue(), ...): getvalue raises on None
\* before any call is made; the call itself succeeds or raises.
PutObject ==
    /\ pc = "put"
    /\ IF GetvalueRaises(audio_file)
       THEN S3WriteFailed(consumer, s3_calls, get_media_calls, "getvalue")
       ELSE \E ok \in BOOLEAN :
              LET call == [Key |-> S3Path(ContactId(total_record_count)),
                           Body |-> getvalue(audio_file),
                           Tagging |-> Tagging(event[total_record_count]),
                           ok |-> ok]
              IN IF PutReturns(ok)
                 THEN /\ s3_calls' = Append(s3_calls, call)
                      /\ processed_record_count' = processed_record_count + 1
                      /\ pc' = "loop"
                      /\ consumer' = Release(consumer, total_record_count)
                      /\ producer' = Detach(producer, total_record_count)
                      /\ audio_file' = None
                      /\ UNCHANGED <<event, total_record_count, response_container,
                                     response, get_media_calls>>
                      /\ log_error' = ""
                 ELSE S3WriteFailed(consumer, Append(s3_calls, call), get_media_calls,
                                    "process/store")

Return ==
    /\ pc = "loop"
    /\ total_record_count = Len(event)
    /\ response' = [statusCode |-> 200,
                    processed |-> processed_record_count,
                    total |-> total_record_count,
                    recordResults |-> response_container]
    /\ pc' = "done"
    /\ UNCHANGED <<event, total_record_count, processed_record_count,
                   response_container, consumer, producer, audio_file,
                   get_media_calls, s3_calls>>
    /\ log_error' = ""

\* ---- the KvsConsumerLibrary thread of record i ---------------------------
Extracted == {"raise", "none", "data"}

FragmentArrives(i) ==
    /\ producer[i].phase = "streaming"
    /\ \E f \in (producer[i].sent + 1)..MaxFrag :
       \E tags \in {"raise", "nonumber", "ok"} :
       \E from_data \in Extracted, to_data \in Extracted :
          LET r == on_fragment_arrived(consumer[i], f, tags, from_data, to_data) IN
          /\ consumer' = [consumer EXCEPT ![i] = r.self]
          /\ producer' = [producer EXCEPT ![i].sent = f]
          /\ log_error' = IF r.err THEN "on_fragment_arrived" ELSE ""
    /\ UNCHANGED main_vars
    /\ UNCHANGED event

StreamComplete(i) ==
    /\ producer[i].phase = "streaming"
    /\ \E to_raises \in BOOLEAN, from_raises \in BOOLEAN :
          LET r == on_stream_read_complete(consumer[i], to_raises, from_raises)
          IN /\ producer' = [producer EXCEPT ![i] = [phase |-> "completed", sent |-> 0]]
             /\ consumer' = [consumer EXCEPT ![i] = r.self]
             /\ log_error' = r.err
    /\ UNCHANGED main_vars
    /\ UNCHANGED event

\* on_stream_read_exception only logs.
StreamError(i) ==
    /\ producer[i].phase = "streaming"
    /\ producer' = [producer EXCEPT ![i] = [phase |-> "errored", sent |-> 0]]
    /\ consumer' = [consumer EXCEPT ![i] = on_stream_read_exception(@)]
    /\ log_error' = "on_stream_read_exception"
    /\ UNCHANGED main_vars
    /\ UNCHANGED event

Main ==
    \/ DecodeFailed \/ FlagError \/ AlreadyProcessed \/ FlagNotValid
    \/ KvsInfoFailed \/ CreateConsumer \/ StartStream \/ ServiceLoopReturns
    \/ PutObject \/ Return

Producer(i) == FragmentArrives(i) \/ StreamComplete(i) \/ StreamError(i)

Next == Main \/ \E i \in 1..MaxRecords : Producer(i)

Spec == Init /\ [][Next]_vars

\* Python runs every runnable thread eventually.
FairSpec ==
    Spec /\ WF_vars(Main) /\ \A i \in 1..MaxRecords : WF_vars(Producer(i))

\* ---- vocabulary of the claims -----------------------------------------------
IsConsumer(c) == c.end_fragment > 0
Terminated(c) == c.past_end_fragment

\* The records whose loop iteration has ended.
Decided == 1..(IF Cur = 0 THEN total_record_count ELSE total_record_count - 1)

HasResult(container, k, result) ==
    \E j \in 1..Len(container) :
        container[j].label = k /\ container[j].result = result
HasEntry(container, k) ==
    \E j \in 1..Len(container) : container[j].label = k

Stored(k) ==
    \E j \in 1..Len(s3_calls) :
        s3_calls[j].Key = S3Path(ContactId(k)) /\ s3_calls[j].ok
PutCalls(k) ==
    Cardinality({j \in 1..Len(s3_calls) : s3_calls[j].Key = S3Path(ContactId(k))})

\* C1: the returned report has exactly one entry per input record, keyed by
\* the 1-based record label, in input order -- also for stored records.
C1_OneEntryPerRecord ==
    pc = "done" =>
        /\ Len(response.recordResults) = Len(event)
        /\ \A k \in 1..Len(event) : response.recordResults[k].label = k

\* C2: a flag-"1" record whose audio was stored is reported with a Success
\* entry (one that is neither a skip nor a failure text) for its label.
C2_SuccessEntry ==
    \A k \in Decided :
        Stored(k) =>
            \E j \in 1..Len(response_container) :
                /\ response_container[j].label = k
                /\ response_container[j].result # "Failed to write audio to S3"

\* C3: once in-range fragments filled the FROM buffer and a fragment past
\* the end bound arrived, the FROM artifact is there when service_loop
\* returns, so that the storage call can be made.
C3_BoundReachedArtifact ==
    (/\ pc = "put"
     /\ consumer[total_record_count].last_good_fragment_tags
            > consumer[total_record_count].end_fragment
     /\ Len(consumer[total_record_count].from_audio_fragments) > 0)
        => audio_file # None

\* C4: whatever fails for a record, the batch ends by returning its report.
C4_BatchAlwaysReturns == <>(pc = "done" /\ response.statusCode = 200)

\* C4, the part about exceptions only: whenever lambda_handler has returned,
\* every record was attempted and the status code is 200.
C4_ReturnedReport ==
    pc = "done" =>
        /\ response.statusCode = 200
        /\ response.total = Len(event)
        /\ total_record_count = Len(event)

\* C5: an event delivered to a terminated consumer changes neither buffer
\* and neither artifact, and the consumer stays terminated.
C5_IgnoredAfterTermination ==
    [][\A i \in 1..MaxRecords :
          (IsConsumer(consumer[i]) /\ IsConsumer(consumer'[i])
              /\ Terminated(consumer[i]))
          => /\ Terminated(consumer'[i])
             /\ consumer'[i].from_audio_fragments = consumer[i].from_audio_fragments
             /\ consumer'[i].to_audio_fragments = consumer[i].to_audio_fragments
             /\ consumer'[i].from_customer_audio = consumer[i].from_customer_audio
             /\ consumer'[i].to_customer_audio = consumer[i].to_customer_audio]_vars

\* C6: once stream-complete was delivered the consumer is terminated, and a
\* caller waiting in service_loop leaves the loop, packaging error or not.
C6_CompleteUnblocks ==
    /\ [](\A i \in 1..MaxRecords :
             (producer[i].phase = "completed" /\ IsConsumer(consumer[i]))
                 => Terminated(consumer[i]))
    /\ (pc = "wait" /\ producer[Cur].phase = "completed") ~> (pc # "wait")

C6_Witness ==
    /\ pc = "wait"
    /\ producer[total_record_count].phase = "completed"
    /\ log_error = "convert_track_to_wav(from_audio_fragments)"

\* C7: after stream-complete, a channel with a non-empty buffer has its
\* artifact even when packaging the other channel raised: TO failed (buffer
\* non-empty, no artifact) and FROM non-empty means the FROM artifact exists.
C7_PackagingIsolated ==
    \A i \in 1..MaxRecords :
        (/\ IsConsumer(consumer[i])
         /\ producer[i].phase = "completed"
         /\ Len(consumer[i].to_audio_fragments) > 0
         /\ consumer[i].to_customer_audio = None
         /\ Len(consumer[i].from_audio_fragments) > 0)
            => consumer[i].from_customer_audio # None

\* C8: a fragment whose processing raised leaves both buffers as they were
\* and the consumer awaiting fragments.
C8_RaisingFragmentAddsNothing ==
    [][\A i \in 1..MaxRecords :
          (/\ producer[i].phase = "streaming" /\ producer'[i].phase = "streaming"
           /\ producer'[i].sent # producer[i].sent
           /\ log_error' = "on_fragment_arrived")
          => /\ consumer'[i].from_audio_fragments = consumer[i].from_audio_fragments
             /\ consumer'[i].to_audio_fragments = consumer[i].to_audio_fragments
             /\ consumer'[i].past_end_fragment = consumer[i].past_end_fragment]_vars

\* C9: routing of every decoded record by its flag: "1" is processed (never
\* skipped, and with a usable range a consumer is created and run), "0" is
\* reported as already processed, any other or no value as not valid; the
\* flag-error result is given exactly when reading the flag raised; and a
\* consumer exists only for flag "1".
C9_Routing ==
    \A k \in 1..total_record_count :
        LET r == event[k]
            skipped == \/ HasResult(response_container, k,
                                    "IGNORE - voicemail already processed")
                       \/ HasResult(response_container, k,
                                    "IGNORE - voicemail flag not valid")
            flag_error ==
                HasResult(response_container, k,
                          "IGNORE - An error occurred whilst evaluating Voicemail Flag")
        IN /\ (r.decodes /\ r.vm_flag = "1") =>
                 /\ ~skipped /\ ~flag_error
                 /\ r.stop # 0 =>
                       \/ k = Cur /\ IsConsumer(consumer[k])
                       \/ k \in Decided
                            /\ \/ Stored(k)
                               \/ HasResult(response_container, k,
                                            "Failed to write audio to S3")
           /\ (r.decodes /\ r.vm_flag = "0") =>
                 HasResult(response_container, k,
                           "IGNORE - voicemail already processed")
           /\ (r.decodes /\ r.vm_flag \in {"7", "absent"}) =>
                 HasResult(response_container, k,
                           "IGNORE - voicemail flag not valid")
           /\ flag_error <=> (r.decodes /\ r.vm_flag = "raise")
           /\ IsConsumer(consumer[k]) => (r.decodes /\ r.vm_flag = "1")

C9_Witness ==
    /\ pc = "done"
    /\ Len(event) = 2
    /\ event[1].vm_flag = "absent"
    /\ HasResult(response_container, 1, "IGNORE - voicemail flag not valid")
    /\ event[2].vm_flag = "1"
    /\ Stored(2)

\* C10: the iteration of a record with flag "0" or an invalid flag creates
\* no consumer, starts no stream, makes no get_media and no put_object call,
\* and ends at the head of the loop with the record's skip result.
C10_SkipTouchesNothing ==
    [][(/\ total_record_count' = total_record_count + 1
        /\ event[total_record_count + 1].decodes
        /\ event[total_record_count + 1].vm_flag \in {"0", "7", "absent"})
       => /\ consumer' = consumer
          /\ producer' = producer
          /\ get_media_calls' = get_media_calls
          /\ s3_calls' = s3_calls
          /\ pc' = "loop"
          /\ \/ HasResult(response_container', total_record_count + 1,
                          "IGNORE - voicemail already processed")
             \/ HasResult(response_container', total_record_count + 1,
                          "IGNORE - voicemail flag not valid")]_vars

C10_Witness ==
    /\ pc = "loop"
    /\ total_record_count = 2
    /\ event[2].vm_flag = "0"
    /\ HasResult(response_container, 2, "IGNORE - voicemail already processed")
    /\ Stored(1)
    /\ PutCalls(2) = 0
    /\ 2 \notin get_media_calls
    /\ ~IsConsumer(consumer[2])


\* A step in which on_fragment_arrived of consumer i read the number of the
\* fragment just delivered.
NumberedFragment(i) ==
    /\ producer[i].phase = "streaming" /\ producer'[i].phase = "streaming"
    /\ producer'[i].sent # producer[i].sent
    /\ consumer'[i].last_good_fragment_tags = producer'[i].sent

\* C11: a fragment numbered f is past the end iff f > end_fragment.  Past
\* the end nothing is extracted or appended and the consumer is terminated;
\* otherwise (f = end_fragment included) the termination flag is left alone
\* and, no exception logged, each buffer is as before or extended by the
\* fragment's span.
C11_PastEndIffGreater ==
    [][\A i \in 1..MaxRecords :
          NumberedFragment(i) =>
              LET f == producer'[i].sent
                  old == consumer[i]
                  new == consumer'[i]
              IN IF f > old.end_fragment
                 THEN /\ new.from_audio_fragments = old.from_audio_fragments
                      /\ new.to_audio_fragments = old.to_audio_fragments
                      /\ Terminated(new)
                      /\ log_error' = ""
                 ELSE /\ new.past_end_fragment = old.past_end_fragment
                      /\ log_error' = "" =>
                            /\ new.from_audio_fragments \in
                                   {old.from_audio_fragments,
                                    old.from_audio_fragments \o Span(f)}
                            /\ new.to_audio_fragments \in
                                   {old.to_audio_fragments,
                                    old.to_audio_fragments \o Span(f)}]_vars

\* The end fragment itself was appended to both buffers with the consumer
\* still awaiting, then a later fragment terminated it and added nothing.
C11_Witness ==
    \E i \in 1..MaxRecords :
        /\ IsConsumer(consumer[i])
        /\ producer[i].phase = "streaming"
        /\ consumer[i].last_good_fragment_tags > consumer[i].end_fragment
        /\ Terminated(consumer[i])
        /\ consumer[i].from_audio_fragments = <<consumer[i].end_fragment>>
        /\ consumer[i].to_audio_fragments = <<consumer[i].end_fragment>>


\* The spans of a buffer are those of fragments within the range, each once,
\* in the order of the fragment numbers, which is the order of arrival.
InArrivalOrder(buffer, end_fragment) ==
    /\ \A j \in 1..Len(buffer) : buffer[j] \in 1..end_fragment
    /\ \A j \in 1..(Len(buffer) - 1) : buffer[j] < buffer[j + 1]

\* A buffer changes only by the span of the fragment just delivered being
\* appended at its end.
GrowsAtEnd(i, old, new) ==
    \/ new = old
    \/ /\ producer[i].phase = "streaming"
       /\ producer'[i].sent > producer[i].sent
       /\ producer'[i].sent <= consumer[i].end_fragment
       /\ new = old \o Span(producer'[i].sent)

\* C12: each channel buffer is the concatenation, in arrival order, of spans
\* of in-range fragments: it only grows, by the delivered fragment's span at
\* its end; nothing is reordered, repeated or lost.
C12_BuffersAppendInOrder ==
    /\ [](\A i \in 1..MaxRecords :
             IsConsumer(consumer[i]) =>
                 /\ InArrivalOrder(consumer[i].from_audio_fragments,
                                   consumer[i].end_fragment)
                 /\ InArrivalOrder(consumer[i].to_audio_fragments,
                                   consumer[i].end_fragment))
    /\ [][\A i \in 1..MaxRecords :
             (IsConsumer(consumer[i]) /\ IsConsumer(consumer'[i])) =>
                 /\ GrowsAtEnd(i, consumer[i].from_audio_fragments,
                                  consumer'[i].from_audio_fragments)
                 /\ GrowsAtEnd(i, consumer[i].to_audio_fragments,
                                  consumer'[i].to_audio_fragments)]_vars

C12_Witness ==
    \E i \in 1..MaxRecords :
        /\ IsConsumer(consumer[i])
        /\ consumer[i].from_audio_fragments = <<1, 2>>
        /\ consumer[i].to_audio_fragments = <<2>>


\* C13: under the transport's contract (fragments, then one stream-complete
\* or stream-error) a caller waiting in service_loop leaves the loop.
C13_ServiceLoopReturns == (pc = "wait") ~> (pc # "wait")

\* C14: the stream-error call-back leaves the consumer as it was: flag,
\* buffers, artifacts and last fragment tags.
C14_ErrorChangesNothing ==
    [][\A i \in 1..MaxRecords :
          (producer[i].phase = "streaming" /\ producer'[i].phase = "errored")
              => consumer'[i] = consumer[i]]_vars

C14_Witness ==
    \E i \in 1..MaxRecords :
        /\ producer[i].phase = "errored"
        /\ IsConsumer(consumer[i])
        /\ ~Terminated(consumer[i])
        /\ consumer[i].last_good_fragment_tags = 1
        /\ consumer[i].from_audio_fragments = <<1>>
        /\ log_error = "on_stream_read_exception"


\* C15: processed_record_count grows by storage only in the step in which
\* put_object, called for the current record after its consumer terminated,
\* returned without error; any other growth is a skip.
C15_CountedAfterStorage ==
    [][processed_record_count' # processed_record_count =>
          /\ processed_record_count' = processed_record_count + 1
          /\ \/ /\ pc = "loop"
                /\ total_record_count' = total_record_count + 1
                /\ Route(VmFlag(event[total_record_count + 1])) # "process"
             \/ /\ pc = "put"
                /\ Terminated(consumer[total_record_count])
                /\ Len(s3_calls') = Len(s3_calls) + 1
                /\ s3_calls'[Len(s3_calls')].ok
                /\ s3_calls'[Len(s3_calls')].Key =
                       S3Path(ContactId(total_record_count))]_vars

C15_Witness ==
    /\ pc = "loop"
    /\ total_record_count = 1
    /\ event[1].vm_flag = "1"
    /\ processed_record_count = 1
    /\ Stored(1)


\* C16: a record that failed at the decode, routing or range stage caused no
\* get_media and no put_object call, and the storage-stage result is written
\* only once the consumer was created and run, that is from the put_object
\* stage of the record.
C16_FailedAtItsStage ==
    /\ [](\A k \in Decided :
             (\/ HasResult(response_container, k,
                           "Failed to extract record and/or decode")
              \/ HasResult(response_container, k,
                           "IGNORE - An error occurred whilst evaluating Voicemail Flag")
              \/ HasResult(response_container, k, "Failed to extract KVS info"))
                 => (k \notin get_media_calls /\ PutCalls(k) = 0))
    /\ [][\A k \in 1..MaxRecords :
             (/\ ~HasResult(response_container, k, "Failed to write audio to S3")
              /\ HasResult(response_container', k, "Failed to write audio to S3"))
                 => pc = "put"]_vars


\* The outcome of a decided record, read from the report and the storage log.
Skipped(container, k) ==
    \/ HasResult(container, k, "IGNORE - voicemail already processed")
    \/ HasResult(container, k, "IGNORE - voicemail flag not valid")
Failed(container, k) ==
    \/ HasResult(container, k, "Failed to extract record and/or decode")
    \/ HasResult(container, k,
                 "IGNORE - An error occurred whilst evaluating Voicemail Flag")
    \/ HasResult(container, k, "Failed to extract KVS info")
    \/ HasResult(container, k, "Failed to extract vm tags")
    \/ HasResult(container, k, "Failed to write audio to S3")
Success(container, k) == Stored(k) /\ ~HasEntry(container, k)

\* C17: 0 <= processed <= total <= n throughout; in the returned report the
\* total is n, the processed count is the number of stored and skipped
\* records, and the rest are the records with a failure result.
C17_CountsMatchOutcomes ==
    /\ 0 <= processed_record_count
    /\ processed_record_count <= total_record_count
    /\ total_record_count <= Len(event)
    /\ pc = "done" =>
          LET results == response.recordResults
              n == Len(event)
          IN /\ response.total = n
             /\ response.processed =
                    Cardinality({k \in 1..n : Success(results, k)
                                                \/ Skipped(results, k)})
             /\ response.total - response.processed =
                    Cardinality({k \in 1..n : Failed(results, k)})
             /\ \A k \in 1..n :
                    ~(Failed(results, k)
                        /\ (Success(results, k) \/ Skipped(results, k)))

C17_Witness ==
    /\ pc = "done"
    /\ Len(event) = 2
    /\ Success(response.recordResults, 1)
    /\ Failed(response.recordResults, 2)
    /\ response.processed = 1
    /\ response.total = 2


\* C18: the batch is sequential.  The only consumer lambda_handler holds is
\* that of the record it is working on; it lets go of a consumer only with
\* the record's outcome decided and, if the consumer's stream was started,
\* with the consumer terminated; and a consumer is created with buffers of
\* its own, while no earlier record has a consumer or a followed thread.
C18_OneConsumerAtATime ==
    /\ [](\A i \in 1..MaxRecords :
             /\ IsConsumer(consumer[i]) => i = Cur
             /\ producer[i].phase \in {"streaming", "completed", "errored"}
                    => i = Cur)
    /\ [][\A i \in 1..MaxRecords :
             /\ (IsConsumer(consumer[i]) /\ ~IsConsumer(consumer'[i])) =>
                   /\ i \in Decided'
                   /\ HasEntry(response_container', i) \/ Stored(i)'
                   /\ producer[i].phase # "idle" => Terminated(consumer[i])
             /\ (~IsConsumer(consumer[i]) /\ IsConsumer(consumer'[i])) =>
                   /\ consumer'[i].from_audio_fragments = <<>>
                   /\ consumer'[i].to_audio_fragments = <<>>
                   /\ ~Terminated(consumer'[i])
                   /\ \A j \in 1..MaxRecords :
                          j # i => (~IsConsumer(consumer[j]) /\ j \in Decided)
                                     \/ j > total_record_count']_vars

C18_Witness ==
    /\ total_record_count = 2
    /\ pc = "wait"
    /\ IsConsumer(consumer[2]) /\ ~Terminated(consumer[2])
    /\ producer[2].phase = "streaming"
    /\ consumer[2].from_audio_fragments = <<1>>
    /\ ~IsConsumer(consumer[1])
    /\ producer[1].phase = "unfollowed"
    /\ Stored(1)


\* C19: when service_loop returned for a flag-"1" record and the consumer
\* had no FROM artifact to hand over, the step that ends the record makes no
\* put_object call, leaves processed_record_count as it is and writes the
\* result "Failed to write audio to S3" for the record.
C19_NoArtifactNoStorage ==
    /\ []((pc = "put" /\ consumer[total_record_count].from_customer_audio = None)
             => /\ audio_file = None
                /\ Terminated(consumer[total_record_count])
                /\ VmFlag(event[total_record_count]) = "1"
                /\ PutCalls(total_record_count) = 0)
    /\ [][(pc = "put" /\ audio_file = None /\ pc' # "put") =>
             /\ s3_calls' = s3_calls
             /\ processed_record_count' = processed_record_count
             /\ HasResult(response_container', total_record_count,
                          "Failed to write audio to S3")
             /\ total_record_count \in Decided']_vars

C19_Witness ==
    /\ pc = "loop"
    /\ total_record_count = 1
    /\ log_error = "getvalue"
    /\ event[1].vm_flag = "1"
    /\ 1 \in get_media_calls
    /\ PutCalls(1) = 0
    /\ processed_record_count = 0
    /\ HasResult(response_container, 1, "Failed to write audio to S3")

====
